---- MODULE Spec2Model ----
(***************************************************************************)
(* Romanized-Nepali to Devanagari transliteration engine of                *)
(* pages/english_to_nepali_converter.py, with convert_kantipur_to_unicode  *)
(* of pages/nepali_converter.py and sanitize_filename of                   *)
(* utils/file_utils.py.                                                    *)
(*                                                                         *)
(* Characters are Unicode code points (integers), strings are sequences of *)
(* code points.  Cursors are 0-based as in the Python source, so the       *)
(* character s[i] of the source is s[i + 1] here.                          *)
(***************************************************************************)
EXTENDS Integers, Sequences, FiniteSets, TLC

\* ------------------------------------------------------------------------
\* Bounds of the model
\* ------------------------------------------------------------------------
\* longest input drawn from Alphabet
MaxLen == 3
\* the segment list is not allowed to grow beyond this many spans
MaxSegments == 6
\* the number of concurrent calls, and the longest input of one of them
NumCalls == 2
MaxConcLen == 2
\* longest token drawn from TokenAlphabet for a direct call of
\* translit_syllables
MaxTokenLen == 3
\* longest text drawn from KantipurAlphabet
MaxKantipurLen == 2
\* longest filename drawn from FileAlphabet, and the largest max_length
MaxFileLen == 4
MaxNameLen == 5

\* ------------------------------------------------------------------------
\* Constants of the program
\* ------------------------------------------------------------------------
ZWNJ == 8204
ZWJ == 8205
HALANT == 2381

\* the characters the code names in literals
LBRACE == 123
RBRACE == 125
SLASH == 47
BACKSLASH == 92
STAR == 42
\* 'ं' appended by the nasalization rule
ANUSVARA == 2306
\* 'य' and 'ा' of the ya quirk in push_consonant
YA == 2351
AA_MATRA == 2366

\* ------------------------------------------------------------------------
\* Token tables, in declaration order
\* ------------------------------------------------------------------------
VOWELS ==
  <<
    [key |-> <<97>>, val |-> <<2309>>],    \* a -> U+0905
    [key |-> <<97, 97>>, val |-> <<2310>>],    \* aa -> U+0906
    [key |-> <<65>>, val |-> <<2310>>],    \* A -> U+0906
    [key |-> <<105>>, val |-> <<2311>>],    \* i -> U+0907
    [key |-> <<101, 101>>, val |-> <<2312>>],    \* ee -> U+0908
    [key |-> <<73>>, val |-> <<2312>>],    \* I -> U+0908
    [key |-> <<117>>, val |-> <<2313>>],    \* u -> U+0909
    [key |-> <<111, 111>>, val |-> <<2314>>],    \* oo -> U+090A
    [key |-> <<85>>, val |-> <<2314>>],    \* U -> U+090A
    [key |-> <<101>>, val |-> <<2319>>],    \* e -> U+090F
    [key |-> <<97, 105>>, val |-> <<2320>>],    \* ai -> U+0910
    [key |-> <<111>>, val |-> <<2323>>],    \* o -> U+0913
    [key |-> <<97, 117>>, val |-> <<2324>>],    \* au -> U+0914
    [key |-> <<114, 114, 105>>, val |-> <<2315>>],    \* rri -> U+090B
    [key |-> <<114, 114, 101, 101>>, val |-> <<2400>>]    \* rree -> U+0960
  >>

MATRAS ==
  <<
    [key |-> <<97>>, val |-> <<>>],    \* a -> (empty)
    [key |-> <<97, 97>>, val |-> <<2366>>],    \* aa -> U+093E
    [key |-> <<65>>, val |-> <<2366>>],    \* A -> U+093E
    [key |-> <<105>>, val |-> <<2367>>],    \* i -> U+093F
    [key |-> <<101, 101>>, val |-> <<2368>>],    \* ee -> U+0940
    [key |-> <<73>>, val |-> <<2368>>],    \* I -> U+0940
    [key |-> <<117>>, val |-> <<2369>>],    \* u -> U+0941
    [key |-> <<111, 111>>, val |-> <<2370>>],    \* oo -> U+0942
    [key |-> <<85>>, val |-> <<2370>>],    \* U -> U+0942
    [key |-> <<101>>, val |-> <<2375>>],    \* e -> U+0947
    [key |-> <<97, 105>>, val |-> <<2376>>],    \* ai -> U+0948
    [key |-> <<111>>, val |-> <<2379>>],    \* o -> U+094B
    [key |-> <<97, 117>>, val |-> <<2380>>],    \* au -> U+094C
    [key |-> <<114, 114, 105>>, val |-> <<2371>>],    \* rri -> U+0943
    [key |-> <<114, 114, 101, 101>>, val |-> <<2372>>]    \* rree -> U+0944
  >>

CONSONANTS ==
  <<
    [key |-> <<107>>, val |-> <<2325>>],    \* k -> U+0915
    [key |-> <<107, 104>>, val |-> <<2326>>],    \* kh -> U+0916
    [key |-> <<103>>, val |-> <<2327>>],    \* g -> U+0917
    [key |-> <<103, 104>>, val |-> <<2328>>],    \* gh -> U+0918
    [key |-> <<120>>, val |-> <<2325, 2381, 2359>>],    \* x -> U+0915 U+094D U+0937
    [key |-> <<99>>, val |-> <<2330>>],    \* c -> U+091A
    [key |-> <<99, 104>>, val |-> <<2330>>],    \* ch -> U+091A
    [key |-> <<99, 104, 104>>, val |-> <<2331>>],    \* chh -> U+091B
    [key |-> <<106>>, val |-> <<2332>>],    \* j -> U+091C
    [key |-> <<106, 104>>, val |-> <<2333>>],    \* jh -> U+091D
    [key |-> <<110, 121>>, val |-> <<2334>>],    \* ny -> U+091E
    [key |-> <<121, 110, 97>>, val |-> <<2334>>],    \* yna -> U+091E
    [key |-> <<116>>, val |-> <<2340>>],    \* t -> U+0924
    [key |-> <<116, 104>>, val |-> <<2341>>],    \* th -> U+0925
    [key |-> <<100>>, val |-> <<2342>>],    \* d -> U+0926
    [key |-> <<100, 104>>, val |-> <<2343>>],    \* dh -> U+0927
    [key |-> <<110>>, val |-> <<2344>>],    \* n -> U+0928
    [key |-> <<116, 97>>, val |-> <<2340>>],    \* ta -> U+0924
    [key |-> <<116, 104, 97>>, val |-> <<2341>>],    \* tha -> U+0925
    [key |-> <<100, 97>>, val |-> <<2342>>],    \* da -> U+0926
    [key |-> <<100, 104, 97>>, val |-> <<2343>>],    \* dha -> U+0927
    [key |-> <<110, 97>>, val |-> <<2344>>],    \* na -> U+0928
    [key |-> <<84>>, val |-> <<2335>>],    \* T -> U+091F
    [key |-> <<84, 104>>, val |-> <<2336>>],    \* Th -> U+0920
    [key |-> <<68>>, val |-> <<2337>>],    \* D -> U+0921
    [key |-> <<68, 104>>, val |-> <<2338>>],    \* Dh -> U+0922
    [key |-> <<78>>, val |-> <<2339>>],    \* N -> U+0923
    [key |-> <<84, 97>>, val |-> <<2335>>],    \* Ta -> U+091F
    [key |-> <<84, 104, 97>>, val |-> <<2336>>],    \* Tha -> U+0920
    [key |-> <<68, 97>>, val |-> <<2337>>],    \* Da -> U+0921
    [key |-> <<68, 104, 97>>, val |-> <<2338>>],    \* Dha -> U+0922
    [key |-> <<78, 97>>, val |-> <<2339>>],    \* Na -> U+0923
    [key |-> <<112>>, val |-> <<2346>>],    \* p -> U+092A
    [key |-> <<112, 104>>, val |-> <<2347>>],    \* ph -> U+092B
    [key |-> <<98>>, val |-> <<2348>>],    \* b -> U+092C
    [key |-> <<98, 104>>, val |-> <<2349>>],    \* bh -> U+092D
    [key |-> <<109>>, val |-> <<2350>>],    \* m -> U+092E
    [key |-> <<121>>, val |-> <<2351>>],    \* y -> U+092F
    [key |-> <<114>>, val |-> <<2352>>],    \* r -> U+0930
    [key |-> <<108>>, val |-> <<2354>>],    \* l -> U+0932
    [key |-> <<119>>, val |-> <<2357>>],    \* w -> U+0935
    [key |-> <<118>>, val |-> <<2357>>],    \* v -> U+0935
    [key |-> <<115>>, val |-> <<2360>>],    \* s -> U+0938
    [key |-> <<115, 104>>, val |-> <<2358>>],    \* sh -> U+0936
    [key |-> <<83, 104>>, val |-> <<2359>>],    \* Sh -> U+0937
    [key |-> <<104>>, val |-> <<2361>>],    \* h -> U+0939
    [key |-> <<107, 115, 104, 97>>, val |-> <<2325, 2381, 2359>>],    \* ksha -> U+0915 U+094D U+0937
    [key |-> <<103, 121, 97>>, val |-> <<2332, 2381, 2334>>]    \* gya -> U+091C U+094D U+091E
  >>

SPECIALS ==
  <<
    [key |-> <<42>>, val |-> <<2306>>],    \* * -> U+0902
    [key |-> <<42, 42>>, val |-> <<2305>>],    \* ** -> U+0901
    [key |-> <<111, 109>>, val |-> <<2384>>],    \* om -> U+0950
    [key |-> <<114, 114>>, val |-> <<2352, 2381, 8205>>],    \* rr -> U+0930 U+094D U+200D
    [key |-> <<114, 105, 94>>, val |-> <<2352, 2367>>]    \* ri^ -> U+0930 U+093F
  >>

LEXICON ==
  <<
    [key |-> <<107, 101>>, val |-> <<2325, 2375>>],    \* ke -> U+0915 U+0947
    [key |-> <<107, 111>>, val |-> <<2325, 2379>>],    \* ko -> U+0915 U+094B
    [key |-> <<108, 101>>, val |-> <<2354, 2375>>],    \* le -> U+0932 U+0947
    [key |-> <<108, 97, 97, 105>>, val |-> <<2354, 2366, 2312>>],    \* laai -> U+0932 U+093E U+0908
    [key |-> <<108, 97, 105>>, val |-> <<2354, 2366, 2312>>],    \* lai -> U+0932 U+093E U+0908
    [key |-> <<114, 97>>, val |-> <<2352>>],    \* ra -> U+0930
    [key |-> <<104, 111>>, val |-> <<2361, 2379>>],    \* ho -> U+0939 U+094B
    [key |-> <<104, 117, 110, 99, 104, 97>>, val |-> <<2361, 2369, 2344, 2381, 2331>>],    \* huncha -> U+0939 U+0941 U+0928 U+094D U+091B
    [key |-> <<104, 117, 110, 99, 104, 104, 97>>, val |-> <<2361, 2369, 2344, 2381, 2331>>],    \* hunchha -> U+0939 U+0941 U+0928 U+094D U+091B
    [key |-> <<104, 117, 99, 104, 97>>, val |-> <<2361, 2369, 2344, 2381, 2331>>],    \* hucha -> U+0939 U+0941 U+0928 U+094D U+091B
    [key |-> <<99, 104, 97>>, val |-> <<2331>>],    \* cha -> U+091B
    [key |-> <<99, 104, 104, 97>>, val |-> <<2331>>],    \* chha -> U+091B
    [key |-> <<120, 97>>, val |-> <<2331>>],    \* xa -> U+091B
    [key |-> <<120, 104, 97>>, val |-> <<2331>>],    \* xha -> U+091B
    [key |-> <<99, 104, 97, 110>>, val |-> <<2331, 2344, 2381>>],    \* chan -> U+091B U+0928 U+094D
    [key |-> <<99, 104, 117>>, val |-> <<2331, 2369>>],    \* chu -> U+091B U+0941
    [key |-> <<99, 104, 104, 97, 117>>, val |-> <<2331, 2380, 2305>>],    \* chhau -> U+091B U+094C U+0901
    [key |-> <<99, 104, 104, 97, 117, 772>>, val |-> <<2331, 2380, 2305>>],    \* c h h a u U+0304 -> U+091B U+094C U+0901
    [key |-> <<99, 104, 104, 97, 101, 110>>, val |-> <<2331, 2376, 2344>>],    \* chhaen -> U+091B U+0948 U+0928
    [key |-> <<99, 104, 97, 105, 110, 97>>, val |-> <<2331, 2376, 2344>>],    \* chaina -> U+091B U+0948 U+0928
    [key |-> <<99, 104, 104, 97, 105, 110, 97>>, val |-> <<2331, 2376, 2344>>],    \* chhaina -> U+091B U+0948 U+0928
    [key |-> <<120, 97, 105, 110, 97>>, val |-> <<2331, 2376, 2344>>],    \* xaina -> U+091B U+0948 U+0928
    [key |-> <<114, 97, 105, 99, 104, 104, 97>>, val |-> <<2352, 2376, 2331>>],    \* raichha -> U+0930 U+0948 U+091B
    [key |-> <<114, 97, 105, 99, 104, 97>>, val |-> <<2352, 2376, 2331>>],    \* raicha -> U+0930 U+0948 U+091B
    [key |-> <<114, 97, 105, 120, 97>>, val |-> <<2352, 2376, 2331>>],    \* raixa -> U+0930 U+0948 U+091B
    [key |-> <<107>>, val |-> <<2325, 2375>>],    \* k -> U+0915 U+0947
    [key |-> <<107, 104, 97>>, val |-> <<2326, 2366>>],    \* kha -> U+0916 U+093E
    [key |-> <<107, 97, 115, 116, 111>>, val |-> <<2325, 2360, 2381, 2340, 2379>>],    \* kasto -> U+0915 U+0938 U+094D U+0924 U+094B
    [key |-> <<114, 97, 109, 114, 111>>, val |-> <<2352, 2366, 2350, 2381, 2352, 2379>>],    \* ramro -> U+0930 U+093E U+092E U+094D U+0930 U+094B
    [key |-> <<100, 104, 101, 114, 97, 105>>, val |-> <<2343, 2375, 2352, 2376>>],    \* dherai -> U+0927 U+0947 U+0930 U+0948
    [key |-> <<115, 97, 98, 97, 105>>, val |-> <<2360, 2348, 2376>>],    \* sabai -> U+0938 U+092C U+0948
    [key |-> <<104, 117, 110, 101, 121>>, val |-> <<2361, 2369, 2344, 2375>>],    \* huney -> U+0939 U+0941 U+0928 U+0947
    [key |-> <<104, 117, 110, 101>>, val |-> <<2361, 2369, 2344, 2375>>],    \* hune -> U+0939 U+0941 U+0928 U+0947
    [key |-> <<109, 97>>, val |-> <<2350>>],    \* ma -> U+092E
    [key |-> <<104, 97, 109, 114, 111>>, val |-> <<2361, 2366, 2350, 2381, 2352, 2379>>],    \* hamro -> U+0939 U+093E U+092E U+094D U+0930 U+094B
    [key |-> <<104, 97, 109, 114, 97, 105>>, val |-> <<2361, 2366, 2350, 2381, 2352, 2379, 2376>>],    \* hamrai -> U+0939 U+093E U+092E U+094D U+0930 U+094B U+0948
    [key |-> <<109, 101, 114, 111>>, val |-> <<2350, 2375, 2352, 2379>>],    \* mero -> U+092E U+0947 U+0930 U+094B
    [key |-> <<116, 105, 109, 105>>, val |-> <<2340, 2367, 2350, 2368>>],    \* timi -> U+0924 U+093F U+092E U+0940
    [key |-> <<116, 97, 112, 97, 105>>, val |-> <<2340, 2346, 2366, 2312, 2306>>],    \* tapai -> U+0924 U+092A U+093E U+0908 U+0902
    [key |-> <<116, 97, 112, 97, 105, 772>>, val |-> <<2340, 2346, 2366, 2312, 2306>>],    \* t a p a i U+0304 -> U+0924 U+092A U+093E U+0908 U+0902
    [key |-> <<104, 121, 97>>, val |-> <<2361, 2351, 2366>>]    \* hya -> U+0939 U+092F U+093E
  >>

\* ------------------------------------------------------------------------
\* Table helpers
\* ------------------------------------------------------------------------
\* the keys of a dict, in insertion order
Keys(dictionary) == [j \in 1..Len(dictionary) |-> dictionary[j].key]

\* key in dictionary
HasKey(dictionary, key) == \E j \in 1..Len(dictionary) : dictionary[j].key = key

\* dictionary[key]
Lookup(dictionary, key) ==
  dictionary[CHOOSE j \in 1..Len(dictionary) : dictionary[j].key = key].val

\* dictionary.get(key, "")
GetOrEmpty(dictionary, key) ==
  IF HasKey(dictionary, key) THEN Lookup(dictionary, key) ELSE <<>>

MaxKeyLen(dictionary) ==
  CHOOSE n \in 0..8 :
    /\ \A j \in 1..Len(dictionary) : Len(dictionary[j].key) <= n
    /\ \/ n = 0
       \/ \E j \in 1..Len(dictionary) : Len(dictionary[j].key) = n

RECURSIVE KeysByLength(_, _)
KeysByLength(keys, n) ==
  IF n = 0 THEN <<>>
  ELSE SelectSeq(keys, LAMBDA k : Len(k) = n) \o KeysByLength(keys, n - 1)

\* the keys left in declaration order, without the sort
get_token_order_Unsorted(dictionary) == Keys(dictionary)

\* sorted(dictionary.keys(), key=len, reverse=True): a stable sort, so keys
\* of equal length keep their declaration order
get_token_order(dictionary) ==
  KeysByLength(Keys(dictionary), MaxKeyLen(dictionary))

V_ORDER == get_token_order(VOWELS)
C_ORDER == get_token_order(CONSONANTS)
S_ORDER == get_token_order(SPECIALS)

\* the module-level names the functions read: G stands for them in the
\* operators below that take them as an argument
Globals ==
  [VOWELS |-> VOWELS, MATRAS |-> MATRAS, CONSONANTS |-> CONSONANTS,
   SPECIALS |-> SPECIALS, LEXICON |-> LEXICON,
   V_ORDER |-> V_ORDER, C_ORDER |-> C_ORDER, S_ORDER |-> S_ORDER]

\* ------------------------------------------------------------------------
\* Character classes
\* ------------------------------------------------------------------------
IsUpper(ch) == ch >= 65 /\ ch <= 90
IsLowerCase(ch) == ch >= 97 /\ ch <= 122
IsDigit(ch) == ch >= 48 /\ ch <= 57

\* the character class [A-Za-z0-9] in the place of [A-Za-z]
IsLetter_AlphaNum(ch) == IsUpper(ch) \/ IsLowerCase(ch) \/ IsDigit(ch)

\* the character class [A-Z] in the place of [A-Za-z]
IsLetter_UpperOnly(ch) == IsUpper(ch)

\* the character class [A-Za-z] of the regex in translit_nep
IsLetter(ch) == IsUpper(ch) \/ IsLowerCase(ch)

\* re.match(r'[A-Za-z0-9]', ch)
is_alpha_num(ch) == IsUpper(ch) \/ IsLowerCase(ch) \/ IsDigit(ch)

\* str.lower() on a run of ASCII letters
ToLower(word) ==
  [j \in 1..Len(word) |-> IF IsUpper(word[j]) THEN word[j] + 32 ELSE word[j]]

\* the same match without re.IGNORECASE
IsNasalFollower_CaseSensitive(ch) ==
  ch \in {107, 103, 99, 106, 113, 116, 100, 112, 98, 115, 104, 120}

\* re.match(r'[kgcjqtdpbshx]', ch, re.IGNORECASE)
IsNasalFollower(ch) ==
  LET lc == IF IsUpper(ch) THEN ch + 32 ELSE ch
  IN lc \in {107, 103, 99, 106, 113, 116, 100, 112, 98, 115, 104, 120}

\* ------------------------------------------------------------------------
\* String helpers
\* ------------------------------------------------------------------------
\* s[a:b] with 0-based a, b
Slice(s, a, b) == SubSeq(s, a + 1, b)

\* s.startswith(k, idx)
StartsWith(s, k, idx) ==
  /\ idx + Len(k) <= Len(s)
  /\ \A j \in 1..Len(k) : s[idx + j] = k[j]

\* s.rfind(ch, start): the greatest index >= start holding ch, or -1
Find_Last(s, ch, start) ==
  IF \E j \in start..(Len(s) - 1) : s[j + 1] = ch
  THEN CHOOSE j \in start..(Len(s) - 1) :
         /\ s[j + 1] = ch
         /\ \A h \in (j + 1)..(Len(s) - 1) : s[h + 1] # ch
  ELSE -1

\* s.find(ch, start): the least index >= start holding ch, or -1
Find(s, ch, start) ==
  IF \E j \in start..(Len(s) - 1) : s[j + 1] = ch
  THEN CHOOSE j \in start..(Len(s) - 1) :
         /\ s[j + 1] = ch
         /\ \A h \in start..(j - 1) : s[h + 1] # ch
  ELSE -1

\* ------------------------------------------------------------------------
\* Syllable engine: translit_syllables
\* ------------------------------------------------------------------------
\* the first key of a match order that s starts with at idx; <<>> is None
FirstMatch(order, s, idx) ==
  IF \E j \in 1..Len(order) : StartsWith(s, order[j], idx)
  THEN order[CHOOSE j \in 1..Len(order) :
               /\ StartsWith(s, order[j], idx)
               /\ \A h \in 1..(j - 1) : ~StartsWith(s, order[h], idx)]
  ELSE <<>>

peek_consonant_key_in(G, s, idx) == FirstMatch(G.C_ORDER, s, idx)

peek_vowel_key_in(G, s, idx) == FirstMatch(G.V_ORDER, s, idx)

\* `out += value` inside push_consonant.  push_consonant assigns out and has
\* no nonlocal declaration, so out is a local of push_consonant and has no
\* value when the augmented assignment reads it: UnboundLocalError.  The
\* out of translit_syllables is left as it was.
LocalAugAssign(out, value) == [raised |-> TRUE, out |-> out]

\* push_consonant(base, vowel_key), called with the enclosing out
push_consonant_in(G, out, base, vowel_key) ==
  IF base = <<YA>> /\ (vowel_key = <<>> \/ vowel_key = <<97>>)
  THEN LocalAugAssign(out, base \o <<AA_MATRA>>)
  ELSE IF vowel_key = <<>> \/ vowel_key = <<97>>
       THEN LocalAugAssign(out, base)
       ELSE LocalAugAssign(out, base \o GetOrEmpty(G.MATRAS, vowel_key))

\* the consonant rule, c_key being the consonant key matched at i
ConsonantRule_in(G, s, i, out, c_key) ==
  LET base == Lookup(G.CONSONANTS, c_key)
      i2 == i + Len(c_key)
      v_key == peek_vowel_key_in(G, s, i2)
      next_c == peek_consonant_key_in(G, s, i2)
  IN IF v_key # <<>>
     THEN LET p == push_consonant_in(G, out, base, v_key)
          IN IF p.raised
             THEN [i |-> i2, out |-> p.out, raised |-> TRUE]
             ELSE [i |-> i2 + Len(v_key), out |-> p.out, raised |-> FALSE]
     ELSE IF next_c # <<>>
          THEN [i |-> i2, out |-> out \o base \o <<HALANT>>, raised |-> FALSE]
          ELSE LET p == push_consonant_in(G, out, base, <<97>>)
               IN [i |-> i2, out |-> p.out, raised |-> p.raised]

\* the fallback with the character lowercased on its way out
FallbackRule_Lowercase(s, i, out) ==
  [i |-> i + 1,
   out |-> Append(out, IF IsUpper(s[i + 1]) THEN s[i + 1] + 32 ELSE s[i + 1]),
   raised |-> FALSE]

\* Fallback: pass-through of the character at the cursor
FallbackRule(s, i, out) ==
  [i |-> i + 1, out |-> Append(out, s[i + 1]), raised |-> FALSE]

\* the loop body with the consonant rule tried before the Specials
SyllableStep_in_ConsonantFirst(G, s, i, out) ==
  LET ch == s[i + 1]
      s_key == FirstMatch(G.S_ORDER, s, i)
      c_key == peek_consonant_key_in(G, s, i)
      v_key2 == peek_vowel_key_in(G, s, i)
  IN IF ch = SLASH
     THEN [i |-> i + 1, out |-> Append(out, ZWNJ), raised |-> FALSE]
     ELSE IF ch = BACKSLASH
     THEN [i |-> i + 1, out |-> Append(out, HALANT), raised |-> FALSE]
     ELSE IF ~is_alpha_num(ch) /\ ch # STAR
     THEN [i |-> i + 1, out |-> Append(out, ch), raised |-> FALSE]
     ELSE IF c_key # <<>>
     THEN ConsonantRule_in(G, s, i, out, c_key)
     ELSE IF s_key # <<>>
     THEN [i |-> i + Len(s_key), out |-> out \o Lookup(G.SPECIALS, s_key),
           raised |-> FALSE]
     ELSE IF /\ ch \in {110, 109}
             /\ i + 1 < Len(s)
             /\ IsNasalFollower(s[i + 2])
     THEN [i |-> i + 1, out |-> Append(out, ANUSVARA), raised |-> FALSE]
     ELSE IF v_key2 # <<>>
     THEN [i |-> i + Len(v_key2), out |-> out \o Lookup(G.VOWELS, v_key2),
           raised |-> FALSE]
     ELSE FallbackRule(s, i, out)

\* one iteration of the while loop of translit_syllables at cursor i < len(s)
SyllableStep_in(G, s, i, out) ==
  LET ch == s[i + 1]
      s_key == FirstMatch(G.S_ORDER, s, i)
      c_key == peek_consonant_key_in(G, s, i)
      v_key2 == peek_vowel_key_in(G, s, i)
  IN IF ch = SLASH
     THEN [i |-> i + 1, out |-> Append(out, ZWNJ), raised |-> FALSE]
     ELSE IF ch = BACKSLASH
     THEN [i |-> i + 1, out |-> Append(out, HALANT), raised |-> FALSE]
     ELSE IF ~is_alpha_num(ch) /\ ch # STAR
     THEN [i |-> i + 1, out |-> Append(out, ch), raised |-> FALSE]
     ELSE IF s_key # <<>>
     THEN [i |-> i + Len(s_key), out |-> out \o Lookup(G.SPECIALS, s_key),
           raised |-> FALSE]
     ELSE IF /\ ch \in {110, 109}
             /\ i + 1 < Len(s)
             /\ IsNasalFollower(s[i + 2])
     THEN [i |-> i + 1, out |-> Append(out, ANUSVARA), raised |-> FALSE]
     ELSE IF c_key # <<>>
     THEN ConsonantRule_in(G, s, i, out, c_key)
     ELSE IF v_key2 # <<>>
     THEN [i |-> i + Len(v_key2), out |-> out \o Lookup(G.VOWELS, v_key2),
           raised |-> FALSE]
     ELSE FallbackRule(s, i, out)

\* the same operators reading the tables of the module
peek_consonant_key(s, idx) == peek_consonant_key_in(Globals, s, idx)

peek_vowel_key(s, idx) == peek_vowel_key_in(Globals, s, idx)

push_consonant(out, base, vowel_key) ==
  push_consonant_in(Globals, out, base, vowel_key)

ConsonantRule(s, i, out, c_key) == ConsonantRule_in(Globals, s, i, out, c_key)

SyllableStep(s, i, out) == SyllableStep_in(Globals, s, i, out)

\* ------------------------------------------------------------------------
\* Word resolver: translit_nep
\* ------------------------------------------------------------------------
\* the end (exclusive, 0-based) of the match of [A-Za-z]+ that starts at pos
RECURSIVE RunEnd(_, _)
RunEnd(text, pos) ==
  IF pos < Len(text) /\ IsLetter(text[pos + 1])
  THEN RunEnd(text, pos + 1)
  ELSE pos

\* match.group(0) of the match that starts at pos
MatchAt(text, pos) == Slice(text, pos, RunEnd(text, pos))

\* replace_word handing the lowercase key to translit_syllables
replace_word_in_Lowercased(G, word) ==
  LET key == ToLower(word)
  IN IF HasKey(G.LEXICON, key)
     THEN [lexicon |-> TRUE, text |-> Lookup(G.LEXICON, key)]
     ELSE [lexicon |-> FALSE, text |-> key]

\* replace_word(match): the LEXICON value, or the call of translit_syllables
replace_word_in(G, word) ==
  LET key == ToLower(word)
  IN IF HasKey(G.LEXICON, key)
     THEN [lexicon |-> TRUE, text |-> Lookup(G.LEXICON, key)]
     ELSE [lexicon |-> FALSE, text |-> word]

\* replace_word looking the word up as typed, without word.lower()
replace_word_CaseSensitive(word) ==
  IF HasKey(LEXICON, word)
  THEN [lexicon |-> TRUE, text |-> Lookup(LEXICON, word)]
  ELSE [lexicon |-> FALSE, text |-> word]

replace_word(word) == replace_word_in(Globals, word)

\* ------------------------------------------------------------------------
\* Segmenter: one iteration of the while loop of transliterate
\* ------------------------------------------------------------------------
\* the same loop body with the literal span sliced from the brace itself
SegmentBody_KeepsBrace(input_text, i, segments) ==
  LET end == Find(input_text, RBRACE, i + 1)
      next_brace == Find(input_text, LBRACE, i)
      text == IF next_brace # -1
              THEN Slice(input_text, i, next_brace)
              ELSE Slice(input_text, i, Len(input_text))
  IN IF input_text[i + 1] = LBRACE /\ end # -1
     THEN [segments |-> Append(segments,
                          [type |-> "raw", text |-> Slice(input_text, i, end)]),
           i |-> end + 1]
     ELSE [segments |-> Append(segments, [type |-> "nep", text |-> text]),
           i |-> IF next_brace # -1 THEN next_brace ELSE Len(input_text)]

SegmentBody(input_text, i, segments) ==
  LET end == Find(input_text, RBRACE, i + 1)
      next_brace == Find(input_text, LBRACE, i)
      text == IF next_brace # -1
              THEN Slice(input_text, i, next_brace)
              ELSE Slice(input_text, i, Len(input_text))
  IN IF input_text[i + 1] = LBRACE /\ end # -1
     THEN [segments |-> Append(segments,
                          [type |-> "raw", text |-> Slice(input_text, i + 1, end)]),
           i |-> end + 1]
     ELSE [segments |-> Append(segments, [type |-> "nep", text |-> text]),
           i |-> IF next_brace # -1 THEN next_brace ELSE Len(input_text)]

\* ------------------------------------------------------------------------
\* The three functions as functions of their argument
\* ------------------------------------------------------------------------
\* the while loop of translit_syllables from cursor i on: out, or the fault
RECURSIVE SyllableRun(_, _, _)
SyllableRun(s, i, out) ==
  IF i >= Len(s)
  THEN [raised |-> FALSE, text |-> out]
  ELSE LET r == SyllableStep(s, i, out)
       IN IF r.raised
          THEN [raised |-> TRUE, text |-> r.out]
          ELSE SyllableRun(s, r.i, r.out)

translit_syllables(s) == SyllableRun(s, 0, <<>>)

\* re.sub(r'[A-Za-z]+', replace_word, text) from position pos on
RECURSIVE SubRun(_, _, _)
SubRun(text, pos, acc) ==
  IF pos >= Len(text)
  THEN [raised |-> FALSE, text |-> acc]
  ELSE IF ~IsLetter(text[pos + 1])
  THEN SubRun(text, pos + 1, Append(acc, text[pos + 1]))
  ELSE LET word == MatchAt(text, pos)
           r == replace_word(word)
           e == translit_syllables(r.text)
       IN IF r.lexicon
          THEN SubRun(text, pos + Len(word), acc \o r.text)
          ELSE IF e.raised
          THEN [raised |-> TRUE, text |-> acc]
          ELSE SubRun(text, pos + Len(word), acc \o e.text)

translit_nep(text) == SubRun(text, 0, <<>>)

\* the while loop of transliterate from cursor i on: the span list, or
\* returns = FALSE when an iteration leaves the cursor where it was, which
\* repeats that iteration for ever
RECURSIVE SegmentRun(_, _, _)
SegmentRun(input_text, i, segments) ==
  IF i >= Len(input_text)
  THEN [returns |-> TRUE, segments |-> segments]
  ELSE LET r == SegmentBody(input_text, i, segments)
       IN IF r.i <= i
          THEN [returns |-> FALSE, segments |-> r.segments]
          ELSE SegmentRun(input_text, r.i, r.segments)

\* the join over the spans from span n on
RECURSIVE JoinRun(_, _, _)
JoinRun(segments, n, acc) ==
  IF n > Len(segments)
  THEN [status |-> "done", text |-> acc]
  ELSE IF segments[n].type = "raw"
  THEN JoinRun(segments, n + 1, acc \o segments[n].text)
  ELSE LET r == translit_nep(segments[n].text)
       IN IF r.raised
          THEN [status |-> "raised", text |-> acc]
          ELSE JoinRun(segments, n + 1, acc \o r.text)

\* transliterate(input_text): status "done" with the string returned,
\* "raised" for a fault, "loops" when the segmenter loop never ends
transliterate(input_text) ==
  LET g == SegmentRun(input_text, 0, <<>>)
  IN IF g.returns
     THEN JoinRun(g.segments, 1, <<>>)
     ELSE [status |-> "loops", text |-> <<>>]

\* ------------------------------------------------------------------------
\* Output encoder and output modes of the page
\* ------------------------------------------------------------------------
\* str(n) for n >= 0: the decimal digits of n
RECURSIVE Decimal(_)
Decimal(n) ==
  IF n < 10 THEN <<48 + n>>
  ELSE Append(Decimal(n \div 10), 48 + (n % 10))

\* the reference written without its closing ';'
Reference_NoSemicolon(c) == <<38, 35>> \o Decimal(c)

\* f'&#{ord(c)};'
Reference(c) == <<38, 35>> \o Decimal(c) \o <<59>>

\* ''.join(parts)
RECURSIVE Join(_)
Join(parts) ==
  IF parts = <<>> THEN <<>> ELSE Head(parts) \o Join(Tail(parts))

encode_html(text) == Join([j \in 1..Len(text) |-> Reference(text[j])])

\* the options of the "Output Mode" radio
Modes == {"unicode", "html", "smart"}

\* the output with the smart mode encoded as the html mode is
render_SmartEncodes(m, unicode_output) ==
  IF m \in {"html", "smart"} THEN encode_html(unicode_output)
  ELSE unicode_output

\* final_output of main for the mode m
render(m, unicode_output) ==
  IF m = "html" THEN encode_html(unicode_output) ELSE unicode_output

\* ------------------------------------------------------------------------
\* Inputs
\* ------------------------------------------------------------------------
\* k e K a r { } / \ 1 * and the danda U+0964
Alphabet == {107, 101, 75, 97, 114, 123, 125, 47, 92, 49, 42, 2404}

RECURSIVE StringsUpTo(_)
StringsUpTo(n) ==
  IF n = 0 THEN {<<>>}
  ELSE LET shorter == StringsUpTo(n - 1)
       IN shorter \cup {Append(w, ch) : w \in shorter, ch \in Alphabet}

\* the inputs the page offers as examples
Examples ==
  {
    <<104, 121, 97, 32, 107, 101, 32, 114, 97, 105, 99, 104, 104, 97>>,    \* hya ke raichha
    <<110, 97, 109, 97, 115, 107, 97, 114>>,    \* namaskar
    <<100, 104, 97, 110, 121, 97, 119, 97, 97, 100>>,    \* dhanyawaad
    <<115, 97, 103, 97, 114, 109, 97, 116, 104, 97>>,    \* sagarmatha
    <<75, 97, 116, 104, 109, 97, 110, 100, 117>>,    \* Kathmandu
    <<112, 114, 97, 116, 105, 115, 104, 97, 116, 47, 107, 111>>,    \* pratishat/ko
    <<77, 101, 114, 111, 32, 100, 101, 115, 104, 32, 78, 101, 112, 97, 108, 32, 104, 111, 46>>,    \* Mero desh Nepal ho.
    <<107, 115, 104, 97, 32, 103, 121, 97, 32, 121, 110, 97>>    \* ksha gya yna
  }

\* further inputs named by the documentation of the engine
DocInputs ==
  {
    <<123, 65, 66, 67, 49, 50, 51, 33, 125>>,    \* {ABC123!}
    <<75, 69>>,    \* KE
    <<49, 107, 101, 32, 75, 69, 33>>,    \* 1ke KE!
    <<107, 101, 123, 107>>,    \* ke{k
    <<107, 115, 104, 97>>,    \* ksha
    <<103, 121, 97>>,    \* gya
    <<121, 110, 97>>,    \* yna
    <<75, 69, 97>>,    \* KEa
    <<113, 97>>,    \* qa
    <<123, 38, 35, 52, 57, 59, 125>>,    \* {&#49;}
    <<123, 97, 123, 98, 125, 99, 125>>,    \* {a{b}c}
    <<107, 101, 114, 97>>,    \* kera
    <<111, 109, 97>>,    \* oma
    <<97, 75, 32, 107, 101>>    \* aK ke
  }

Inputs == StringsUpTo(MaxLen) \cup Examples \cup DocInputs

\* k a : the characters of the inputs of concurrent calls
ConcAlphabet == {107, 97}

RECURSIVE StringsOver(_, _)
StringsOver(alphabet, n) ==
  IF n = 0 THEN {<<>>}
  ELSE LET shorter == StringsOver(alphabet, n - 1)
       IN shorter \cup {Append(w, ch) : w \in shorter, ch \in alphabet}

\* the inputs of concurrent calls: short words, an unmatched brace, a
\* literal span and a word with a letter the fallback copies
ConcInputs ==
  StringsOver(ConcAlphabet, MaxConcLen)
    \cup {<<123>>, <<123, 107, 125>>, <<75, 97>>}

CallIds == 1..NumCalls

\* k K a n m r / \ * 1 and the space: the characters of the tokens
\* translit_syllables is called with directly
TokenAlphabet == {107, 75, 97, 110, 109, 114, 47, 92, 42, 49, 32}

\* every consonant key followed by every vowel key
ConsonantVowelTokens ==
  {CONSONANTS[c].key \o VOWELS[v].key :
     c \in 1..Len(CONSONANTS), v \in 1..Len(VOWELS)}

\* the one-letter keys of CONSONANTS
ConsonantLetters ==
  {CONSONANTS[c].key[1] : c \in {j \in 1..Len(CONSONANTS) : Len(CONSONANTS[j].key) = 1}}

\* c1 + 'a' + c2 for one-letter consonant keys c1 and c2
VowelBetweenTokens == {<<c1, 97, c2>> : c1 \in ConsonantLetters, c2 \in ConsonantLetters}

\* further tokens the documentation of the engine names
DocTokens ==
  {
    <<116, 97, 97>>,    \* taa
    <<107, 97, 105>>,    \* kai
    <<77, 107>>,    \* Mk
    <<78, 107>>,    \* Nk
    <<111, 109>>,    \* om
    <<121, 97>>,    \* ya
    <<121>>,    \* y
    <<121, 107>>,    \* yk
    <<97, 121, 97>>,    \* aya
    <<114, 105, 94>>,    \* ri^
    <<111, 109, 97>>    \* oma
  }

Tokens ==
  StringsOver(TokenAlphabet, MaxTokenLen)
    \cup ConsonantVowelTokens \cup VowelBetweenTokens \cup DocTokens

\* ------------------------------------------------------------------------
\* pages/nepali_converter.py: convert_kantipur_to_unicode
\* ------------------------------------------------------------------------
kantipur_to_unicode_map ==
  <<
    [key |-> <<107>>, val |-> <<2325>>],    \* k -> U+0915
    [key |-> <<107, 104>>, val |-> <<2326>>],    \* kh -> U+0916
    [key |-> <<103>>, val |-> <<2327>>],    \* g -> U+0917
    [key |-> <<103, 104>>, val |-> <<2328>>],    \* gh -> U+0918
    [key |-> <<110, 103>>, val |-> <<2329>>],    \* ng -> U+0919
    [key |-> <<99>>, val |-> <<2330>>],    \* c -> U+091A
    [key |-> <<99, 104>>, val |-> <<2331>>],    \* ch -> U+091B
    [key |-> <<106>>, val |-> <<2332>>],    \* j -> U+091C
    [key |-> <<106, 104>>, val |-> <<2333>>],    \* jh -> U+091D
    [key |-> <<110, 121>>, val |-> <<2334>>],    \* ny -> U+091E
    [key |-> <<116>>, val |-> <<2335>>],    \* t -> U+091F
    [key |-> <<116, 104>>, val |-> <<2336>>],    \* th -> U+0920
    [key |-> <<100>>, val |-> <<2337>>],    \* d -> U+0921
    [key |-> <<100, 104>>, val |-> <<2338>>],    \* dh -> U+0922
    [key |-> <<110>>, val |-> <<2339>>],    \* n -> U+0923
    [key |-> <<116, 97>>, val |-> <<2340>>],    \* ta -> U+0924
    [key |-> <<116, 104, 97>>, val |-> <<2341>>],    \* tha -> U+0925
    [key |-> <<100, 97>>, val |-> <<2342>>],    \* da -> U+0926
    [key |-> <<100, 104, 97>>, val |-> <<2343>>],    \* dha -> U+0927
    [key |-> <<110, 97>>, val |-> <<2344>>],    \* na -> U+0928
    [key |-> <<112>>, val |-> <<2346>>],    \* p -> U+092A
    [key |-> <<112, 104>>, val |-> <<2347>>],    \* ph -> U+092B
    [key |-> <<98>>, val |-> <<2348>>],    \* b -> U+092C
    [key |-> <<98, 104>>, val |-> <<2349>>],    \* bh -> U+092D
    [key |-> <<109>>, val |-> <<2350>>],    \* m -> U+092E
    [key |-> <<121>>, val |-> <<2351>>],    \* y -> U+092F
    [key |-> <<114>>, val |-> <<2352>>],    \* r -> U+0930
    [key |-> <<108>>, val |-> <<2354>>],    \* l -> U+0932
    [key |-> <<119>>, val |-> <<2357>>],    \* w -> U+0935
    [key |-> <<115, 104>>, val |-> <<2358>>],    \* sh -> U+0936
    [key |-> <<115>>, val |-> <<2360>>],    \* s -> U+0938
    [key |-> <<104>>, val |-> <<2361>>],    \* h -> U+0939
    [key |-> <<107, 115, 104>>, val |-> <<2325, 2381, 2359>>],    \* ksh -> U+0915 U+094D U+0937
    [key |-> <<116, 114>>, val |-> <<2340, 2381, 2352>>],    \* tr -> U+0924 U+094D U+0930
    [key |-> <<103, 121, 97>>, val |-> <<2332, 2381, 2334>>]    \* gya -> U+091C U+094D U+091E
  >>

\* dict.items(): the (key, value) pairs in insertion order, each a 2-tuple
Items(dictionary) ==
  [j \in 1..Len(dictionary) |-> <<dictionary[j].key, dictionary[j].val>>]

\* the elements of seq that have length n, then those of length n - 1, ...
RECURSIVE ByLenDownFrom(_, _)
ByLenDownFrom(seq, n) ==
  IF n < 0 THEN <<>>
  ELSE SelectSeq(seq, LAMBDA x : Len(x) = n) \o ByLenDownFrom(seq, n - 1)

\* sorted(seq, key=len, reverse=True): a stable sort on len of each element
SortedByLenReverse(seq) == ByLenDownFrom(seq, 8)

\* the order of the for loop: len is applied to the items, which are pairs
ReplacementOrder == SortedByLenReverse(Items(kantipur_to_unicode_map))

\* w.replace(old, new) for a non-empty old: the occurrences of old are
\* replaced from the left, without overlap
RECURSIVE StrReplace(_, _, _)
StrReplace(w, old, new) ==
  IF Len(w) < Len(old) THEN w
  ELSE IF StartsWith(w, old, 0)
  THEN new \o StrReplace(SubSeq(w, Len(old) + 1, Len(w)), old, new)
  ELSE <<Head(w)>> \o StrReplace(Tail(w), old, new)

\* k h s a g y: letters of the keys 'kh', 'ksh', 'gya', 'sh'
KantipurAlphabet == {107, 104, 115, 97, 103, 121}

\* the texts converted: short texts and every key of the map
KantipurInputs ==
  StringsOver(KantipurAlphabet, MaxKantipurLen)
    \cup {kantipur_to_unicode_map[j].key : j \in 1..Len(kantipur_to_unicode_map)}

\* ------------------------------------------------------------------------
\* utils/file_utils.py: sanitize_filename
\* ------------------------------------------------------------------------
\* the characters of the class [<>:"/\\|?*]
InvalidChars == {60, 62, 58, 34, 47, 92, 124, 63, 42}

\* the ASCII characters \s matches and str.strip() removes
IsSpace(ch) == ch \in {32, 9, 10, 11, 12, 13}

\* re.sub(r'[<>:"/\\|?*]', '', filename)
RemoveInvalidChars(w) == SelectSeq(w, LAMBDA ch : ch \notin InvalidChars)

\* re.sub(r'\s+', ' ', filename): every run of whitespace becomes one space
RECURSIVE CollapseWhitespace(_)
CollapseWhitespace(w) ==
  IF w = <<>> THEN <<>>
  ELSE IF IsSpace(Head(w))
  THEN IF Len(w) > 1 /\ IsSpace(w[2])
       THEN CollapseWhitespace(Tail(w))
       ELSE <<32>> \o CollapseWhitespace(Tail(w))
  ELSE <<Head(w)>> \o CollapseWhitespace(Tail(w))

\* filename.strip()
RECURSIVE StripWhitespace(_)
StripWhitespace(w) ==
  IF w = <<>> THEN <<>>
  ELSE IF IsSpace(Head(w)) THEN StripWhitespace(Tail(w))
  ELSE IF IsSpace(w[Len(w)]) THEN StripWhitespace(SubSeq(w, 1, Len(w) - 1))
  ELSE w

\* p.rfind(ch): the greatest index holding ch, or -1
rfind(p, ch) ==
  IF \E j \in 0..(Len(p) - 1) : p[j + 1] = ch
  THEN CHOOSE j \in 0..(Len(p) - 1) :
         /\ p[j + 1] = ch
         /\ \A h \in (j + 1)..(Len(p) - 1) : p[h + 1] # ch
  ELSE -1

\* os.path.splitext(p): the extension starts at the last dot, when that dot
\* comes after the last '/' and after a character of the base name that is
\* not a dot
splitext(p) ==
  LET sepIndex == rfind(p, 47)
      dotIndex == rfind(p, 46)
  IN IF /\ dotIndex > sepIndex
        /\ \E j \in (sepIndex + 1)..(dotIndex - 1) : p[j + 1] # 46
     THEN [name |-> Slice(p, 0, dotIndex), ext |-> Slice(p, dotIndex, Len(p))]
     ELSE [name |-> p, ext |-> <<>>]

\* w[:n]: for n < 0 the slice stops n characters before the end
SliceTo(w, n) ==
  IF n >= 0
  THEN SubSeq(w, 1, IF n < Len(w) THEN n ELSE Len(w))
  ELSE SubSeq(w, 1, IF Len(w) + n > 0 THEN Len(w) + n ELSE 0)

\* the "Limit length" block
LimitLength(w, limit) ==
  LET parts == splitext(w)
      max_name_length == limit - Len(parts.ext) - 3
  IN IF Len(w) > limit
     THEN SliceTo(parts.name, max_name_length) \o <<46, 46, 46>> \o parts.ext
     ELSE w

\* a . space and ':' : the characters of the filenames
FileAlphabet == {97, 46, 32, 58}

FileNames == StringsOver(FileAlphabet, MaxFileLen)

\* ------------------------------------------------------------------------
\* State
\* ------------------------------------------------------------------------
VARIABLES
  input_text,   \* the argument of transliterate
  pc,           \* "segment", "join", "nep", "syll", "done" or "raised"
  i,            \* cursor of the segmenter loop
  segments,     \* the span list
  seg_idx,      \* the span the final join is at (1-based)
  result,       \* the pieces joined so far
  nep_pos,      \* position of the regex scan in the span of translit_nep
  nep_out,      \* the replacement string translit_nep has built so far
  s,            \* the token of the running translit_syllables call
  si,           \* cursor i of translit_syllables
  out,          \* out of translit_syllables
  calls,        \* the tokens handed to translit_syllables so far
  mode,         \* the output mode picked on the page, "" before it is read
  final_output, \* what the page shows, <<>> before it is computed
  globals,      \* concurrent calls: the module-level tables and orders
  frames,       \* concurrent calls: the locals of each call
  kantipur_text, \* the argument text of convert_kantipur_to_unicode
  order_idx,    \* the item of the sorted order the for loop is at (1-based)
  filename,     \* filename of sanitize_filename
  max_length    \* max_length of sanitize_filename

vars == <<input_text, pc, i, segments, seg_idx, result, nep_pos, nep_out,
          s, si, out, calls, mode, final_output, globals, frames,
          kantipur_text, order_idx, filename, max_length>>

segVars == <<i, segments>>
nepVars == <<nep_pos, nep_out>>
syllVars == <<s, si, out>>
uiVars == <<mode, final_output>>
concVars == <<globals, frames>>
utilVars == <<kantipur_text, order_idx, filename, max_length>>
callVars == <<input_text, pc, i, segments, seg_idx, result, nep_pos, nep_out,
              s, si, out, calls, mode, final_output>>

Init ==
  /\ input_text \in Inputs
  /\ pc = "segment"
  /\ i = 0
  /\ segments = <<>>
  /\ seg_idx = 1
  /\ result = <<>>
  /\ nep_pos = 0
  /\ nep_out = <<>>
  /\ s = <<>>
  /\ si = 0
  /\ out = <<>>
  /\ calls = <<>>
  /\ mode = ""
  /\ final_output = <<>>
  /\ globals = <<>>
  /\ frames = <<>>
  /\ kantipur_text = <<>>
  /\ order_idx = 1
  /\ filename = <<>>
  /\ max_length = 0

\* the span translit_nep is working on
CurText == segments[seg_idx].text

\* while i < len(input_text): one iteration
SegmentStep ==
  /\ pc = "segment"
  /\ i < Len(input_text)
  /\ Len(segments) < MaxSegments
  /\ LET r == SegmentBody(input_text, i, segments)
     IN /\ segments' = r.segments
        /\ i' = r.i
  /\ UNCHANGED <<concVars, utilVars, uiVars, input_text, pc, seg_idx, result, nepVars, syllVars, calls>>

\* the loop condition fails: the join over the spans starts
SegmentExit ==
  /\ pc = "segment"
  /\ i >= Len(input_text)
  /\ pc' = "join"
  /\ UNCHANGED <<concVars, utilVars, uiVars, input_text, segVars, seg_idx, result, nepVars, syllVars, calls>>

\* seg['text'] if seg['type'] == 'raw'
JoinRaw ==
  /\ pc = "join"
  /\ seg_idx <= Len(segments)
  /\ segments[seg_idx].type = "raw"
  /\ result' = result \o segments[seg_idx].text
  /\ seg_idx' = seg_idx + 1
  /\ UNCHANGED <<concVars, utilVars, uiVars, input_text, pc, segVars, nepVars, syllVars, calls>>

\* else translit_nep(seg['text']): re.sub starts scanning the span
NepCall ==
  /\ pc = "join"
  /\ seg_idx <= Len(segments)
  /\ segments[seg_idx].type # "raw"
  /\ pc' = "nep"
  /\ nep_pos' = 0
  /\ nep_out' = <<>>
  /\ UNCHANGED <<concVars, utilVars, uiVars, input_text, segVars, seg_idx, result, syllVars, calls>>

\* re.sub copies a character that [A-Za-z]+ does not match
NepCopy ==
  /\ pc = "nep"
  /\ nep_pos < Len(CurText)
  /\ ~IsLetter(CurText[nep_pos + 1])
  /\ nep_out' = Append(nep_out, CurText[nep_pos + 1])
  /\ nep_pos' = nep_pos + 1
  /\ UNCHANGED <<concVars, utilVars, uiVars, input_text, pc, segVars, seg_idx, result, syllVars, calls>>

\* replace_word on a match whose lowercase form is in LEXICON
ReplaceWordLexicon ==
  /\ pc = "nep"
  /\ nep_pos < Len(CurText)
  /\ IsLetter(CurText[nep_pos + 1])
  /\ LET word == MatchAt(CurText, nep_pos)
         r == replace_word(word)
     IN /\ r.lexicon
        /\ nep_out' = nep_out \o r.text
        /\ nep_pos' = nep_pos + Len(word)
  /\ UNCHANGED <<concVars, utilVars, uiVars, input_text, pc, segVars, seg_idx, result, syllVars, calls>>

\* replace_word on any other match: translit_syllables(word) is called
ReplaceWordSyllables ==
  /\ pc = "nep"
  /\ nep_pos < Len(CurText)
  /\ IsLetter(CurText[nep_pos + 1])
  /\ LET r == replace_word(MatchAt(CurText, nep_pos))
     IN /\ ~r.lexicon
        /\ s' = r.text
        /\ calls' = Append(calls, r.text)
  /\ si' = 0
  /\ out' = <<>>
  /\ pc' = "syll"
  /\ UNCHANGED <<concVars, utilVars, uiVars, input_text, segVars, seg_idx, result, nepVars>>

\* while i < len(s): one iteration of translit_syllables
SyllableLoop ==
  /\ pc = "syll"
  /\ si < Len(s)
  /\ LET r == SyllableStep(s, si, out)
     IN /\ si' = r.i
        /\ out' = r.out
        /\ pc' = IF r.raised THEN "raised" ELSE "syll"
  /\ UNCHANGED <<concVars, utilVars, uiVars, input_text, segVars, seg_idx, result, nepVars, s, calls>>

\* return out: re.sub substitutes it for the match
SyllableReturn ==
  /\ pc = "syll"
  /\ si >= Len(s)
  /\ nep_out' = nep_out \o out
  /\ nep_pos' = nep_pos + Len(s)
  /\ pc' = "nep"
  /\ UNCHANGED <<concVars, utilVars, uiVars, input_text, segVars, seg_idx, result, syllVars, calls>>

\* re.sub reaches the end of the span: translit_nep returns
NepReturn ==
  /\ pc = "nep"
  /\ nep_pos >= Len(CurText)
  /\ result' = result \o nep_out
  /\ seg_idx' = seg_idx + 1
  /\ pc' = "join"
  /\ UNCHANGED <<concVars, utilVars, uiVars, input_text, segVars, nepVars, syllVars, calls>>

\* every span is joined: transliterate returns result
Return ==
  /\ pc = "join"
  /\ seg_idx > Len(segments)
  /\ pc' = "done"
  /\ UNCHANGED <<concVars, utilVars, uiVars, input_text, segVars, seg_idx, result, nepVars, syllVars, calls>>

\* main: the page shows the output of a non-empty input in the mode picked
ShowOutput ==
  /\ pc = "done"
  /\ input_text # <<>>
  /\ \E m \in Modes :
       /\ mode' = m
       /\ final_output' = render(m, result)
  /\ pc' = "shown"
  /\ UNCHANGED <<concVars, utilVars, input_text, segVars, seg_idx, result, nepVars, syllVars, calls>>

Next ==
  \/ SegmentStep
  \/ SegmentExit
  \/ JoinRaw
  \/ NepCall
  \/ NepCopy
  \/ ReplaceWordLexicon
  \/ ReplaceWordSyllables
  \/ SyllableLoop
  \/ SyllableReturn
  \/ NepReturn
  \/ Return
  \/ ShowOutput

Spec == Init /\ [][Next]_vars

\* ------------------------------------------------------------------------
\* Concurrent calls: each call has its own locals, all read the same
\* module-level tables
\* ------------------------------------------------------------------------
\* the locals of a call of transliterate(input) followed by encode_html
NewFrame(input) ==
  [input_text |-> input, pc |-> "segment", i |-> 0, segments |-> <<>>,
   seg_idx |-> 1, result |-> <<>>, nep_pos |-> 0, nep_out |-> <<>>,
   s |-> <<>>, si |-> 0, out |-> <<>>, final_output |-> <<>>]

\* the call with locals f can take a step
CallEnabled(f) ==
  /\ f.pc \notin {"encoded", "raised"}
  /\ (f.pc = "segment" /\ f.i < Len(f.input_text))
       => Len(f.segments) < MaxSegments

\* the locals of a call after its next step, G being the module-level names
\* it reads
CallStep(G, f) ==
  LET text == f.segments[f.seg_idx].text
      g == SegmentBody(f.input_text, f.i, f.segments)
      w == replace_word_in(G, MatchAt(text, f.nep_pos))
      e == SyllableStep_in(G, f.s, f.si, f.out)
  IN CASE (f.pc = "segment" /\ f.i < Len(f.input_text)) ->
            [f EXCEPT !.segments = g.segments, !.i = g.i]
       [] (f.pc = "segment" /\ f.i >= Len(f.input_text)) ->
            [f EXCEPT !.pc = "join"]
       [] (f.pc = "join" /\ f.seg_idx > Len(f.segments)) ->
            [f EXCEPT !.pc = "done"]
       [] (f.pc = "join" /\ f.seg_idx <= Len(f.segments)) ->
            IF f.segments[f.seg_idx].type = "raw"
            THEN [f EXCEPT !.result = @ \o text, !.seg_idx = @ + 1]
            ELSE [f EXCEPT !.pc = "nep", !.nep_pos = 0, !.nep_out = <<>>]
       [] (f.pc = "nep" /\ f.nep_pos >= Len(text)) ->
            [f EXCEPT !.result = @ \o f.nep_out, !.seg_idx = @ + 1,
                      !.pc = "join"]
       [] (f.pc = "nep" /\ f.nep_pos < Len(text)) ->
            IF ~IsLetter(text[f.nep_pos + 1])
            THEN [f EXCEPT !.nep_out = Append(@, text[f.nep_pos + 1]),
                           !.nep_pos = @ + 1]
            ELSE IF w.lexicon
            THEN [f EXCEPT !.nep_out = @ \o w.text,
                           !.nep_pos = RunEnd(text, f.nep_pos)]
            ELSE [f EXCEPT !.pc = "syll", !.s = w.text, !.si = 0,
                           !.out = <<>>]
       [] (f.pc = "syll" /\ f.si < Len(f.s)) ->
            [f EXCEPT !.si = e.i, !.out = e.out,
                      !.pc = IF e.raised THEN "raised" ELSE "syll"]
       [] (f.pc = "syll" /\ f.si >= Len(f.s)) ->
            [f EXCEPT !.nep_out = @ \o f.out, !.nep_pos = @ + Len(f.s),
                      !.pc = "nep"]
       [] f.pc = "done" ->
            [f EXCEPT !.final_output = encode_html(f.result),
                      !.pc = "encoded"]

\* a step that also stores the output of a finished translit_syllables
\* call in LEXICON under the lowercase token
StepGlobals_CachesWord(G, f) ==
  IF f.pc = "syll" /\ f.si >= Len(f.s)
  THEN [G EXCEPT !.LEXICON =
          Append(@, [key |-> ToLower(f.s), val |-> f.out])]
  ELSE G

\* the module-level names after a step of a call: no function assigns a
\* module-level name or changes a table or an order
StepGlobals(G, f) == G

ConcInit ==
  /\ globals = Globals
  /\ frames \in [CallIds -> {NewFrame(w) : w \in ConcInputs}]
  /\ input_text = <<>>
  /\ pc = "idle"
  /\ i = 0
  /\ segments = <<>>
  /\ seg_idx = 1
  /\ result = <<>>
  /\ nep_pos = 0
  /\ nep_out = <<>>
  /\ s = <<>>
  /\ si = 0
  /\ out = <<>>
  /\ calls = <<>>
  /\ mode = ""
  /\ final_output = <<>>
  /\ kantipur_text = <<>>
  /\ order_idx = 1
  /\ filename = <<>>
  /\ max_length = 0

\* one step of the call c
ConcStep(c) ==
  /\ CallEnabled(frames[c])
  /\ frames' = [frames EXCEPT ![c] = CallStep(globals, frames[c])]
  /\ globals' = StepGlobals(globals, frames[c])
  /\ UNCHANGED <<callVars, utilVars>>

ConcNext == \E c \in CallIds : ConcStep(c)

ConcSpec == ConcInit /\ [][ConcNext]_vars

\* ------------------------------------------------------------------------
\* translit_syllables called on a token directly
\* ------------------------------------------------------------------------
\* translit_syllables(s): out = "", i = 0
EngineInit ==
  /\ s \in Tokens
  /\ si = 0
  /\ out = <<>>
  /\ pc = "syll"
  /\ input_text = <<>>
  /\ i = 0
  /\ segments = <<>>
  /\ seg_idx = 1
  /\ result = <<>>
  /\ nep_pos = 0
  /\ nep_out = <<>>
  /\ calls = <<>>
  /\ mode = ""
  /\ final_output = <<>>
  /\ globals = <<>>
  /\ frames = <<>>
  /\ kantipur_text = <<>>
  /\ order_idx = 1
  /\ filename = <<>>
  /\ max_length = 0

\* return out, to the caller of translit_syllables
EngineReturn ==
  /\ pc = "syll"
  /\ si >= Len(s)
  /\ pc' = "returned"
  /\ UNCHANGED <<concVars, utilVars, uiVars, input_text, segVars, seg_idx, result, nepVars, syllVars, calls>>

EngineNext ==
  \/ SyllableLoop
  \/ EngineReturn

EngineSpec == EngineInit /\ [][EngineNext]_vars

\* ------------------------------------------------------------------------
\* convert_kantipur_to_unicode called on a text
\* ------------------------------------------------------------------------
\* the variables of the other functions, which these calls leave alone
engineVars == <<input_text, i, segments, seg_idx, nep_pos, nep_out, s, si,
                out, calls, mode, final_output, globals, frames>>

\* result = text
KantipurInit ==
  /\ kantipur_text \in KantipurInputs
  /\ result = kantipur_text
  /\ order_idx = 1
  /\ pc = "replace"
  /\ filename = <<>>
  /\ max_length = 0
  /\ input_text = <<>>
  /\ i = 0
  /\ segments = <<>>
  /\ seg_idx = 1
  /\ nep_pos = 0
  /\ nep_out = <<>>
  /\ s = <<>>
  /\ si = 0
  /\ out = <<>>
  /\ calls = <<>>
  /\ mode = ""
  /\ final_output = <<>>
  /\ globals = <<>>
  /\ frames = <<>>

\* one iteration of the for loop: result = result.replace(kantipur,
\* unicode_char)
KantipurReplace ==
  /\ pc = "replace"
  /\ order_idx <= Len(ReplacementOrder)
  /\ result' = StrReplace(result, ReplacementOrder[order_idx][1],
                          ReplacementOrder[order_idx][2])
  /\ order_idx' = order_idx + 1
  /\ UNCHANGED <<engineVars, pc, kantipur_text, filename, max_length>>

\* return result
KantipurReturn ==
  /\ pc = "replace"
  /\ order_idx > Len(ReplacementOrder)
  /\ pc' = "returned"
  /\ UNCHANGED <<engineVars, result, utilVars>>

KantipurNext ==
  \/ KantipurReplace
  \/ KantipurReturn

KantipurSpec == KantipurInit /\ [][KantipurNext]_vars

\* ------------------------------------------------------------------------
\* sanitize_filename called on a filename and a max_length
\* ------------------------------------------------------------------------
SanitizeInit ==
  /\ filename \in FileNames
  /\ max_length \in 1..MaxNameLen
  /\ pc = "invalid"
  /\ kantipur_text = <<>>
  /\ order_idx = 1
  /\ result = <<>>
  /\ input_text = <<>>
  /\ i = 0
  /\ segments = <<>>
  /\ seg_idx = 1
  /\ nep_pos = 0
  /\ nep_out = <<>>
  /\ s = <<>>
  /\ si = 0
  /\ out = <<>>
  /\ calls = <<>>
  /\ mode = ""
  /\ final_output = <<>>
  /\ globals = <<>>
  /\ frames = <<>>

\* Remove invalid characters
RemoveInvalid ==
  /\ pc = "invalid"
  /\ filename' = RemoveInvalidChars(filename)
  /\ pc' = "spaces"
  /\ UNCHANGED <<engineVars, result, kantipur_text, order_idx, max_length>>

\* Replace multiple spaces with single space
CollapseSpaces ==
  /\ pc = "spaces"
  /\ filename' = CollapseWhitespace(filename)
  /\ pc' = "strip"
  /\ UNCHANGED <<engineVars, result, kantipur_text, order_idx, max_length>>

\* Strip whitespace
Strip ==
  /\ pc = "strip"
  /\ filename' = StripWhitespace(filename)
  /\ pc' = "limit"
  /\ UNCHANGED <<engineVars, result, kantipur_text, order_idx, max_length>>

\* Limit length, and return filename
Limit ==
  /\ pc = "limit"
  /\ filename' = LimitLength(filename, max_length)
  /\ pc' = "returned"
  /\ UNCHANGED <<engineVars, result, kantipur_text, order_idx, max_length>>

SanitizeNext ==
  \/ RemoveInvalid
  \/ CollapseSpaces
  \/ Strip
  \/ Limit

SanitizeSpec == SanitizeInit /\ [][SanitizeNext]_vars

\* ------------------------------------------------------------------------
\* Properties
\* ------------------------------------------------------------------------
\* the number of occurrences of ch in w
Count(w, ch) == Cardinality({j \in 1..Len(w) : w[j] = ch})

\* C1: transliterate(s) returns for every s because every iteration of the
\* segmenter loop and every iteration of the syllable-engine loop moves its
\* cursor forward by at least one character.
C1_CursorAdvances ==
  [][/\ SegmentStep => i' > i
     /\ SyllableLoop => si' > si]_vars

\* C2: at a '{' that has no later '}' the segmenter makes that '{' and
\* everything after it one Transliterable span and reaches the end of the
\* input.
C2_UnmatchedBraceIsText ==
  [][(/\ SegmentStep
      /\ input_text[i + 1] = LBRACE
      /\ Find(input_text, RBRACE, i + 1) = -1)
     => /\ segments' = Append(segments,
                         [type |-> "nep",
                          text |-> Slice(input_text, i, Len(input_text))])
        /\ i' = Len(input_text)]_vars

\* C3: translit_syllables raises no fault for any token, the paths through
\* push_consonant included.
C3_NoFault == pc # "raised"

\* '{' + X + '}' with no '}' in X
IsBracedLiteral(w) ==
  /\ Len(w) >= 2
  /\ w[1] = LBRACE
  /\ w[Len(w)] = RBRACE
  /\ \A j \in 2..(Len(w) - 1) : w[j] # RBRACE

\* C4: transliterate('{' + X + '}') is X for every X without '}': the
\* contents are copied verbatim, no fault is raised and neither the word
\* resolver nor the syllable engine is entered.
C4_LiteralPreserved ==
  IsBracedLiteral(input_text) =>
    /\ pc \notin {"raised", "nep", "syll"}
    /\ calls = <<>>
    /\ pc = "done" => result = SubSeq(input_text, 2, Len(input_text) - 1)

\* a braced literal holding a letter has been returned
C4_Witness ==
  /\ pc = "done"
  /\ IsBracedLiteral(input_text)
  /\ \E j \in 2..(Len(input_text) - 1) : input_text[j] \in {107, 75, 65}
  /\ result # <<>>

\* an ASCII letter A-Z or a-z
AsciiLetter(ch) == ch \in (65..90) \cup (97..122)

\* the start (0-based) of the run of ASCII letters that ends before pos
RECURSIVE RunStart(_, _)
RunStart(text, pos) ==
  IF pos > 0 /\ AsciiLetter(text[pos])
  THEN RunStart(text, pos - 1)
  ELSE pos

\* the run of ASCII letters the regex scan has just gone past
LastRun == Slice(CurText, RunStart(CurText, nep_pos), nep_pos)

\* w ends with v
EndsWith(w, v) ==
  /\ Len(v) <= Len(w)
  /\ SubSeq(w, Len(w) - Len(v) + 1, Len(w)) = v

\* C5: a maximal run of ASCII letters whose lowercase form is a LEXICON key
\* is replaced by the LEXICON value of that key whatever its casing, and no
\* such run is ever handed to translit_syllables.
C5_LexiconPrecedence ==
  /\ \A c \in 1..Len(calls) : ~HasKey(LEXICON, ToLower(calls[c]))
  /\ (/\ pc = "nep"
      /\ nep_pos > 0
      /\ AsciiLetter(CurText[nep_pos])
      /\ HasKey(LEXICON, ToLower(LastRun)))
     => EndsWith(nep_out, Lookup(LEXICON, ToLower(LastRun)))

\* a run with an uppercase letter has been resolved through the lexicon
C5_Witness ==
  /\ pc = "nep"
  /\ nep_pos > 0
  /\ AsciiLetter(CurText[nep_pos])
  /\ LastRun # ToLower(LastRun)
  /\ HasKey(LEXICON, ToLower(LastRun))
  /\ nep_out # <<>>

\* the code points of the values of a table
TableGlyphs(d) ==
  UNION {{d[j].val[h] : h \in 1..Len(d[j].val)} : j \in 1..Len(d)}

\* the code points the tables and the engine can emit
Glyphs ==
  {ANUSVARA, HALANT, ZWNJ, AA_MATRA}
    \cup TableGlyphs(VOWELS) \cup TableGlyphs(MATRAS)
    \cup TableGlyphs(CONSONANTS) \cup TableGlyphs(SPECIALS)
    \cup TableGlyphs(LEXICON)

\* a character that is neither an ASCII letter nor a glyph
IsCopied(ch) == ~AsciiLetter(ch) /\ ch \notin Glyphs

NoBrace(w) == \A j \in 1..Len(w) : w[j] \notin {LBRACE, RBRACE}

\* a consonant letter: a one-letter key of CONSONANTS
IsConsonantLetter(ch) == HasKey(CONSONANTS, <<ch>>)

\* C7: a '/' between two letter runs of the input comes out as ZWNJ and no
\* '/' remains in the output.
C7_SlashGivesZWNJ ==
  (/\ pc = "done"
   /\ NoBrace(input_text)
   /\ \A j \in 1..Len(input_text) :
        input_text[j] = SLASH
          => /\ j > 1 /\ AsciiLetter(input_text[j - 1])
             /\ j < Len(input_text) /\ AsciiLetter(input_text[j + 1]))
  => /\ Count(result, SLASH) = 0
     /\ Count(result, ZWNJ) = Count(input_text, SLASH)

\* C8: a '\' after a consonant of the input comes out as HALANT and no '\'
\* remains in the output.
C8_BackslashGivesHalant ==
  (/\ pc = "done"
   /\ NoBrace(input_text)
   /\ \A j \in 1..Len(input_text) :
        input_text[j] = BACKSLASH
          => j > 1 /\ IsConsonantLetter(input_text[j - 1]))
  => /\ Count(result, BACKSLASH) = 0
     /\ Count(result, HALANT) >= Count(input_text, BACKSLASH)

\* C9: transliterate('namaskar') returns U+0928 U+092E U+0938 U+094D U+0915
\* U+093E U+0930.
C9_Namaskar ==
  input_text = <<110, 97, 109, 97, 115, 107, 97, 114>>
    => /\ pc # "raised"
       /\ pc = "done" => result = <<2344, 2350, 2360, 2381, 2325, 2366, 2352>>

\* C10: transliterate('Mero desh Nepal ho.') returns the Devanagari sentence
\* of the examples list, with its spaces and its full stop.
C10_MixedSentence ==
  input_text = <<77, 101, 114, 111, 32, 100, 101, 115, 104, 32, 78, 101, 112, 97, 108, 32, 104, 111, 46>>
    => /\ pc # "raised"
       /\ pc = "done"
            => result = <<2350, 2375, 2352, 2379, 32, 2342, 2375, 2358, 32, 2344, 2375, 2346, 2366, 2354, 32, 2361, 2379, 46>>

\* C11: transliterate of each of the compound tokens 'ksha', 'gya' and 'yna'
\* returns exactly the glyph CONSONANTS maps the token to, with nothing
\* appended.
C11_CompoundTokens ==
  \A k \in {<<107, 115, 104, 97>>, <<103, 121, 97>>, <<121, 110, 97>>} :
    input_text = k
      => /\ pc # "raised"
         /\ pc = "done" => result = Lookup(CONSONANTS, k)

\* the examples list of the page: the input and the output shown for it
ExamplePairs ==
  <<
    [en |-> <<104, 121, 97, 32, 107, 101, 32, 114, 97, 105, 99, 104, 104, 97>>,
     ne |-> <<2361, 2351, 2366, 32, 2325, 2375, 32, 2352, 2376, 2331>>],    \* hya ke raichha
    [en |-> <<110, 97, 109, 97, 115, 107, 97, 114>>,
     ne |-> <<2344, 2350, 2360, 2381, 2325, 2366, 2352>>],    \* namaskar
    [en |-> <<100, 104, 97, 110, 121, 97, 119, 97, 97, 100>>,
     ne |-> <<2343, 2344, 2381, 2351, 2357, 2366, 2342>>],    \* dhanyawaad
    [en |-> <<115, 97, 103, 97, 114, 109, 97, 116, 104, 97>>,
     ne |-> <<2360, 2327, 2352, 2350, 2366, 2341, 2366>>],    \* sagarmatha
    [en |-> <<75, 97, 116, 104, 109, 97, 110, 100, 117>>,
     ne |-> <<2325, 2366, 2336, 2350, 2366, 2337, 2380, 2306>>],    \* Kathmandu
    [en |-> <<112, 114, 97, 116, 105, 115, 104, 97, 116, 47, 107, 111>>,
     ne |-> <<2346, 2381, 2352, 2340, 2367, 2358, 2340, 2325, 2379>>],    \* pratishat/ko
    [en |-> <<77, 101, 114, 111, 32, 100, 101, 115, 104, 32, 78, 101, 112, 97, 108, 32, 104, 111, 46>>,
     ne |-> <<2350, 2375, 2352, 2379, 32, 2342, 2375, 2358, 32, 2344, 2375, 2346, 2366, 2354, 32, 2361, 2379, 46>>],    \* Mero desh Nepal ho.
    [en |-> <<107, 115, 104, 97, 32, 103, 121, 97, 32, 121, 110, 97>>,
     ne |-> <<2325, 2381, 2359, 32, 2332, 2381, 2334, 32, 2334>>]    \* ksha gya yna
  >>

\* C12: for every pair (en, ne) of the examples list of the page,
\* transliterate(en) returns ne.
C12_ExamplesList ==
  \A n \in 1..Len(ExamplePairs) :
    input_text = ExamplePairs[n].en
      => /\ pc # "raised"
         /\ pc = "done" => result = ExamplePairs[n].ne

\* the string holds a maximal run of ASCII letters that is, in lowercase, a
\* key of LEXICON
HasLexiconRun(w) ==
  \E a \in 1..Len(w) : \E b \in a..Len(w) :
    /\ \A j \in a..b : AsciiLetter(w[j])
    /\ a > 1 => ~AsciiLetter(w[a - 1])
    /\ b < Len(w) => ~AsciiLetter(w[b + 1])
    /\ HasKey(LEXICON, ToLower(SubSeq(w, a, b)))

RECURSIVE DecodeRefs(_)
DecodeRefs(w) ==
  IF w = <<>> THEN <<>>
  ELSE LET semis == {j \in 1..Len(w) : w[j] = 59}
           semi == IF semis = {} THEN 0
                   ELSE CHOOSE j \in semis : \A h \in semis : j <= h
           digits == SubSeq(w, 3, semi - 1)
           RECURSIVE Value(_)
           Value(ds) ==
             IF ds = <<>> THEN 0
             ELSE 10 * Value(SubSeq(ds, 1, Len(ds) - 1)) + (ds[Len(ds)] - 48)
       IN IF \/ semi < 4
             \/ w[1] # 38
             \/ w[2] # 35
             \/ \E j \in 1..Len(digits) : digits[j] < 48 \/ digits[j] > 57
          THEN <<-1>>
          ELSE <<Value(digits)>> \o DecodeRefs(SubSeq(w, semi + 1, Len(w)))

\* C15: encode_html writes every code point of its input, in order and with
\* nothing between them, as '&#' decimal ';', and decoding the references of
\* encode_html(u) gives u.
C15_HtmlRoundTrip ==
  (pc = "shown" /\ mode = "html")
    => /\ DecodeRefs(final_output) = result
       /\ Count(final_output, 38) = Len(result)
       /\ Count(final_output, 59) = Len(result)
       /\ \A j \in 1..Len(final_output) :
            final_output[j] \in {38, 35, 59} \cup (48..57)

\* the html mode has encoded an output that holds a glyph and an ASCII
\* character
C15_Witness ==
  /\ pc = "shown"
  /\ mode = "html"
  /\ \E j \in 1..Len(result) : result[j] \in Glyphs
  /\ \E j \in 1..Len(result) : result[j] < 128

\* C16: the smart mode shows the same output as the unicode mode, the
\* string transliterate returned; only the html mode shows it encoded.
C16_SmartIsUnicode ==
  pc = "shown" =>
    /\ mode \in {"unicode", "smart"} => final_output = result
    /\ (mode = "html" /\ result # <<>>)
         => /\ final_output # result
            /\ Len(final_output) >= 4 * Len(result)

\* the smart mode has shown a non-empty output
C16_Witness ==
  /\ pc = "shown"
  /\ mode = "smart"
  /\ \E j \in 1..Len(result) : result[j] \in Glyphs

\* the place of a key in the declaration order of its table
DeclIndex(d, key) == CHOOSE j \in 1..Len(d) : d[j].key = key

\* order lists every key of d once, longer keys first and keys of equal
\* length in declaration order
IsMatchOrder(order, d) ==
  /\ Len(order) = Len(d)
  /\ \A j \in 1..Len(d) : \E h \in 1..Len(order) : order[h] = d[j].key
  /\ \A a \in 1..Len(order) : \A b \in 1..Len(order) :
       a < b =>
         \/ Len(order[a]) > Len(order[b])
         \/ /\ Len(order[a]) = Len(order[b])
            /\ DeclIndex(d, order[a]) < DeclIndex(d, order[b])

\* k is the longest key of d that w starts with at idx, the first declared
\* among the longest; <<>> when w starts with no key of d at idx
IsLongestMatch(d, k, w, idx) ==
  IF \A j \in 1..Len(d) : ~StartsWith(w, d[j].key, idx)
  THEN k = <<>>
  ELSE /\ HasKey(d, k)
       /\ StartsWith(w, k, idx)
       /\ \A j \in 1..Len(d) :
            StartsWith(w, d[j].key, idx) =>
              \/ Len(d[j].key) < Len(k)
              \/ Len(d[j].key) = Len(k) /\ DeclIndex(d, k) <= j

\* the three match orders of the module are in that order
MatchOrdersSorted ==
  /\ IsMatchOrder(V_ORDER, VOWELS)
  /\ IsMatchOrder(C_ORDER, CONSONANTS)
  /\ IsMatchOrder(S_ORDER, SPECIALS)

\* C18: each match order lists the keys of its table by non-increasing
\* length, equal lengths in declaration order, and the key selected at a
\* position of a token is the longest key of the table that the token
\* starts with there.
C18_LongestMatchOrder ==
  /\ MatchOrdersSorted
  /\ pc = "syll" =>
       \A idx \in 0..Len(s) :
         /\ IsLongestMatch(VOWELS, peek_vowel_key(s, idx), s, idx)
         /\ IsLongestMatch(CONSONANTS, peek_consonant_key(s, idx), s, idx)
         /\ IsLongestMatch(SPECIALS, FirstMatch(S_ORDER, s, idx), s, idx)

\* the engine is at a cursor where two keys of different lengths of one
\* table match
C18_Witness ==
  /\ pc = "syll"
  /\ si < Len(s)
  /\ \E d \in {VOWELS, CONSONANTS} :
       \E j \in 1..Len(d) : \E h \in 1..Len(d) :
         /\ StartsWith(s, d[j].key, si)
         /\ StartsWith(s, d[h].key, si)
         /\ Len(d[j].key) < Len(d[h].key)

\* C19: the cursor of translit_syllables stays within 0..len(s), every loop
\* iteration moves it forward, and every character of the token is consumed:
\* outside the loop the cursor is at the end of the token.
C19_CursorConsumesToken ==
  /\ [](0 <= si /\ si <= Len(s))
  /\ [][SyllableLoop => si' > si]_vars
  /\ [](pc # "syll" => si = Len(s))

\* the span list written back as text: literal spans in their braces
RECURSIVE Rewrap(_)
Rewrap(segs) ==
  IF segs = <<>> THEN <<>>
  ELSE (IF Head(segs).type = "raw"
        THEN <<LBRACE>> \o Head(segs).text \o <<RBRACE>>
        ELSE Head(segs).text) \o Rewrap(Tail(segs))

\* C20: the span list is a lossless split of the input read so far: the
\* span texts in order, literal spans wrapped in '{' and '}' again, are the
\* input up to the cursor, and no Transliterable span is empty.
C20_LosslessSplit ==
  /\ i <= Len(input_text)
  /\ Rewrap(segments) = Slice(input_text, 0, i)
  /\ \A n \in 1..Len(segments) :
       segments[n].type = "nep" => segments[n].text # <<>>

\* C17: no step of a call writes to the tables, the match orders or any
\* other state the calls share, and under every interleaving each call ends
\* as it does alone: it leaves the segmenter only if it does so alone, and
\* it ends with the same string or the same fault.
C17_CallsIndependent ==
  /\ globals = Globals
  /\ \A c \in CallIds :
       LET f == frames[c]
           alone == transliterate(f.input_text)
       IN /\ f.pc = "raised" => alone.status = "raised"
          /\ f.pc = "done" => alone = [status |-> "done", text |-> f.result]
          /\ f.pc = "encoded"
               => /\ alone = [status |-> "done", text |-> f.result]
                  /\ f.final_output = encode_html(f.result)
          /\ (f.pc = "join" /\ f.seg_idx = 1) => alone.status # "loops"

\* a call returns the output of a token that went through the engine while
\* another call, on another input, is inside its engine loop
C17_Witness ==
  \E c \in CallIds : \E b \in CallIds :
    /\ frames[c].pc = "encoded"
    /\ frames[c].s # <<>>
    /\ frames[b].pc = "syll"
    /\ frames[b].si > 0
    /\ frames[b].input_text # frames[c].input_text

\* the spans of '{a{b}c}': the literal 'a{b', then 'c}' as text
NestedExample == <<123, 97, 123, 98, 125, 99, 125>>
NestedSpans ==
  <<[type |-> "raw", text |-> <<97, 123, 98>>],
    [type |-> "nep", text |-> <<99, 125>>]>>

\* C21: literal spans do not nest.  A segmenter step at a '{' that has a
\* later '}' appends as literal span the text up to the first following
\* '}', which holds no '}' but may hold '{', and moves the cursor past that
\* '}'; a '}' met in a Transliterable span is copied to the output as it
\* is; the spans of '{a{b}c}' are the literal 'a{b' and the text 'c}'.
C21_NoNesting ==
  /\ [][(/\ SegmentStep
         /\ input_text[i + 1] = LBRACE
         /\ \E j \in (i + 2)..Len(input_text) : input_text[j] = RBRACE)
        => /\ input_text[i'] = RBRACE
           /\ segments' = Append(segments,
                            [type |-> "raw",
                             text |-> SubSeq(input_text, i + 2, i' - 1)])
           /\ Count(SubSeq(input_text, i + 2, i' - 1), RBRACE) = 0]_vars
  /\ [][(NepCopy /\ CurText[nep_pos + 1] = RBRACE)
        => nep_out' = Append(nep_out, RBRACE)]_vars
  /\ []((input_text = NestedExample /\ pc # "segment")
        => segments = NestedSpans)

\* the segmenter has split '{a{b}c}' and the literal span, with its '{', is
\* in the output
C21_Witness ==
  /\ input_text = NestedExample
  /\ pc = "join"
  /\ seg_idx = 2
  /\ result = <<97, 123, 98>>

\* the rules of the loop body of translit_syllables, first to last
RuleOrder ==
  <<"slash", "backslash", "punct", "specials", "nasal", "consonant",
    "vowel", "fallback">>

\* w starts with a key of the table d at idx
MatchesAt(d, w, idx) == \E j \in 1..Len(d) : StartsWith(w, d[j].key, idx)

\* the longest key of d that w starts with at idx
LongestKeyAt(d, w, idx) ==
  d[CHOOSE j \in 1..Len(d) : IsLongestMatch(d, d[j].key, w, idx)].key

\* the condition of a rule at the cursor idx < len(w)
RuleHolds(rule, w, idx) ==
  CASE rule = "slash" -> w[idx + 1] = SLASH
    [] rule = "backslash" -> w[idx + 1] = BACKSLASH
    [] rule = "punct" ->
         /\ ~(AsciiLetter(w[idx + 1]) \/ w[idx + 1] \in 48..57)
         /\ w[idx + 1] # STAR
    [] rule = "specials" -> MatchesAt(SPECIALS, w, idx)
    [] rule = "nasal" ->
         /\ w[idx + 1] \in {110, 109}
         /\ idx + 2 <= Len(w)
         /\ w[idx + 2] \in {107, 103, 99, 106, 113, 116, 100, 112, 98, 115, 104, 120,
                            75, 71, 67, 74, 81, 84, 68, 80, 66, 83, 72, 88}
    [] rule = "consonant" -> MatchesAt(CONSONANTS, w, idx)
    [] rule = "vowel" -> MatchesAt(VOWELS, w, idx)
    [] rule = "fallback" -> TRUE

\* the first rule of RuleOrder whose condition holds at idx
FirstRule(w, idx) ==
  RuleOrder[CHOOSE n \in 1..Len(RuleOrder) :
              /\ RuleHolds(RuleOrder[n], w, idx)
              /\ \A h \in 1..(n - 1) : ~RuleHolds(RuleOrder[h], w, idx)]

\* the cursor and the output after a rule is applied at idx, and whether
\* applying it raised
RuleEffect(rule, w, idx, o) ==
  CASE rule = "slash" ->
         [i |-> idx + 1, out |-> o \o <<ZWNJ>>, raised |-> FALSE]
    [] rule = "backslash" ->
         [i |-> idx + 1, out |-> o \o <<HALANT>>, raised |-> FALSE]
    [] rule \in {"punct", "fallback"} ->
         [i |-> idx + 1, out |-> o \o <<w[idx + 1]>>, raised |-> FALSE]
    [] rule = "specials" ->
         [i |-> idx + Len(LongestKeyAt(SPECIALS, w, idx)),
          out |-> o \o Lookup(SPECIALS, LongestKeyAt(SPECIALS, w, idx)),
          raised |-> FALSE]
    [] rule = "nasal" ->
         [i |-> idx + 1, out |-> o \o <<ANUSVARA>>, raised |-> FALSE]
    [] rule = "consonant" ->
         ConsonantRule(w, idx, o, LongestKeyAt(CONSONANTS, w, idx))
    [] rule = "vowel" ->
         [i |-> idx + Len(LongestKeyAt(VOWELS, w, idx)),
          out |-> o \o Lookup(VOWELS, LongestKeyAt(VOWELS, w, idx)),
          raised |-> FALSE]

\* C22: every iteration of translit_syllables does what the first rule
\* whose condition holds at the cursor does, the rules taken in the order
\* '/', '\', pass-through of a character that is not alphanumeric and not
\* '*', Specials, nasalization, consonant, standalone vowel, fallback; a
\* Specials key that matches at the cursor is emitted whatever consonant or
\* vowel key matches there too.
C22_FirstRuleWins ==
  [][SyllableLoop =>
       LET e == RuleEffect(FirstRule(s, si), s, si, out)
       IN /\ si' = e.i
          /\ out' = e.out
          /\ (pc' = "raised") = e.raised
          /\ MatchesAt(SPECIALS, s, si) =>
               /\ out' = out \o Lookup(SPECIALS, LongestKeyAt(SPECIALS, s, si))
               /\ si' = si + Len(LongestKeyAt(SPECIALS, s, si))]_vars

\* the engine has emitted the Specials value of 'rr' at a cursor where the
\* consonant key 'r' matches too, or that of 'om' where the vowel key 'o'
\* matches too, and goes on with the rest of the token
C22_Witness ==
  /\ pc = "syll"
  /\ si = 2
  /\ Len(s) > 2
  /\ \/ SubSeq(s, 1, 2) = <<114, 114>> /\ MatchesAt(CONSONANTS, s, 0)
     \/ SubSeq(s, 1, 2) = <<111, 109>> /\ MatchesAt(VOWELS, s, 0)
  /\ out = Lookup(SPECIALS, SubSeq(s, 1, 2))

\* C23: for every consonant key c and every vowel key v the call
\* translit_syllables(c + v) returns CONSONANTS[c] followed by MATRAS[v],
\* which is empty for 'a', and U+092F U+093E when CONSONANTS[c] is U+092F
\* and v is 'a'.
C23_ConsonantVowel ==
  \A c \in 1..Len(CONSONANTS) : \A v \in 1..Len(VOWELS) :
    s = CONSONANTS[c].key \o VOWELS[v].key
      => /\ pc # "raised"
         /\ pc = "returned"
              => out = IF CONSONANTS[c].val = <<YA>> /\ VOWELS[v].key = <<97>>
                       THEN <<YA, AA_MATRA>>
                       ELSE CONSONANTS[c].val \o Lookup(MATRAS, VOWELS[v].key)

\* the consonant rule applies at idx, and after its key comes no vowel key
\* but a consonant key: the step that emits consonant + HALANT
IsHalantStep(w, idx) ==
  /\ FirstRule(w, idx) = "consonant"
  /\ LET after == idx + Len(LongestKeyAt(CONSONANTS, w, idx))
     IN /\ ~MatchesAt(VOWELS, w, after)
        /\ MatchesAt(CONSONANTS, w, after)

\* a chain c1 c2 ... cn, n >= 2, of one-letter consonant keys
IsChain(w) ==
  /\ Len(w) >= 2
  /\ \A j \in 1..Len(w) : w[j] \in ConsonantLetters

\* c1 HALANT c2 HALANT ... cn
RECURSIVE ChainRender(_)
ChainRender(w) ==
  IF Len(w) = 1 THEN Lookup(CONSONANTS, w)
  ELSE Lookup(CONSONANTS, <<Head(w)>>) \o <<HALANT>> \o ChainRender(Tail(w))

\* C24: a step that emits consonant + HALANT because a consonant key
\* follows a consonant without vowel leaves the cursor on that consonant
\* key, the next iteration applies the consonant rule to it, and a chain
\* c1 c2 ... cn of consonants comes out as c1 HALANT c2 HALANT ... cn.
C24_ConjunctChain ==
  /\ [][(SyllableLoop /\ IsHalantStep(s, si))
        => /\ si' = si + Len(LongestKeyAt(CONSONANTS, s, si))
           /\ out' = out \o Lookup(CONSONANTS, LongestKeyAt(CONSONANTS, s, si))
                         \o <<HALANT>>
           /\ MatchesAt(CONSONANTS, s, si')
           /\ FirstRule(s, si') = "consonant"]_vars
  /\ [](IsChain(s)
        => /\ pc # "raised"
           /\ pc = "returned" => out = ChainRender(s))

\* C25: on a token c1 + 'a' + c2, c1 and c2 one-letter consonant keys, no
\* iteration of translit_syllables is the step that emits consonant +
\* HALANT, and the call returns: the two consonants have a vowel letter
\* between them.
C25_NoHalantAcrossVowel ==
  [][(SyllableLoop /\ s \in VowelBetweenTokens)
     => /\ ~IsHalantStep(s, si)
        /\ out' # out \o Lookup(CONSONANTS, LongestKeyAt(CONSONANTS, s, si))
                      \o <<HALANT>>
        /\ pc' # "raised"]_vars

\* the vowel key the consonant rule peeks after the consonant key matched at
\* idx, <<>> when there is none
VowelKeyAfter(w, idx) ==
  LET after == idx + Len(LongestKeyAt(CONSONANTS, w, idx))
  IN IF MatchesAt(VOWELS, w, after)
     THEN LongestKeyAt(VOWELS, w, after)
     ELSE <<>>

\* a consonant key matches right after the consonant key matched at idx
ConsonantKeyAfter(w, idx) ==
  MatchesAt(CONSONANTS, w, idx + Len(LongestKeyAt(CONSONANTS, w, idx)))

\* C26: when the consonant rule matches a key that resolves to U+092F and
\* the vowel key 'a' follows, or neither a vowel key nor a consonant key
\* follows, translit_syllables appends U+092F U+093E; when no vowel key but
\* a consonant key follows, it appends U+092F and HALANT.
C26_YaQuirk ==
  [][(/\ SyllableLoop
      /\ FirstRule(s, si) = "consonant"
      /\ Lookup(CONSONANTS, LongestKeyAt(CONSONANTS, s, si)) = <<YA>>)
     => /\ (\/ VowelKeyAfter(s, si) = <<97>>
            \/ VowelKeyAfter(s, si) = <<>> /\ ~ConsonantKeyAfter(s, si))
           => /\ out' = out \o <<YA, AA_MATRA>>
              /\ pc' = "syll"
        /\ (VowelKeyAfter(s, si) = <<>> /\ ConsonantKeyAfter(s, si))
           => /\ out' = out \o <<YA, HALANT>>
              /\ pc' = "syll"]_vars

\* C27: at a cursor where no Specials key matches, a lowercase 'n' or 'm'
\* followed by one of k g c j q t d p b s h x in either case makes the
\* iteration append the anusvara and move the cursor by one, onto that
\* letter; an 'N', an 'M', or an 'n' or 'm' that ends the token does not
\* take the rule.
C27_NasalShortcut ==
  [][SyllableLoop =>
       /\ (~MatchesAt(SPECIALS, s, si) /\ RuleHolds("nasal", s, si))
            => /\ out' = out \o <<ANUSVARA>>
               /\ si' = si + 1
               /\ pc' = "syll"
       /\ (\/ s[si + 1] \in {78, 77}
           \/ s[si + 1] \in {110, 109} /\ si + 1 = Len(s))
            => out' # out \o <<ANUSVARA>>]_vars

\* an 'n' or 'm' before an uppercase 'K' has given the anusvara and the
\* cursor is on the 'K'
C27_Witness ==
  /\ pc = "syll"
  /\ si = 1
  /\ Len(s) >= 2
  /\ s[1] \in {110, 109}
  /\ s[2] = 75
  /\ out = <<ANUSVARA>>

\* in lowercase, w holds a LEXICON key as a proper substring
HoldsLexiconKey(w) ==
  \E a \in 1..Len(w) : \E b \in a..Len(w) :
    /\ b - a + 1 < Len(w)
    /\ HasKey(LEXICON, SubSeq(ToLower(w), a, b))

\* the maximal run of ASCII letters of the span that starts at pos
RunFrom(w, pos) ==
  LET ends == {e \in pos..Len(w) :
                 /\ \A j \in (pos + 1)..e : AsciiLetter(w[j])
                 /\ e < Len(w) => ~AsciiLetter(w[e + 1])}
  IN Slice(w, pos, CHOOSE e \in ends : \A h \in ends : e <= h)

\* C28: the lexicon is looked up for maximal letter runs only.  A maximal
\* run w whose lowercase form is no LEXICON key is handed to
\* translit_syllables whole and in its casing, and what translit_nep puts
\* in its place is translit_syllables(w), also when w holds a LEXICON key
\* as a proper substring; the call faults only where translit_syllables(w)
\* does.
C28_WholeRunsOnly ==
  /\ [][ReplaceWordSyllables
        => /\ s' = RunFrom(CurText, nep_pos)
           /\ ~HasKey(LEXICON, ToLower(s'))]_vars
  /\ [][SyllableReturn
        => /\ translit_syllables(s) = [raised |-> FALSE, text |-> out]
           /\ nep_out' = nep_out \o translit_syllables(s).text
           /\ nep_pos' = nep_pos + Len(s)]_vars
  /\ [](pc = "raised" => translit_syllables(s).raised)
  /\ []((/\ pc = "nep"
         /\ nep_pos > 0
         /\ AsciiLetter(CurText[nep_pos])
         /\ ~HasKey(LEXICON, ToLower(LastRun)))
        => EndsWith(nep_out, translit_syllables(LastRun).text))

\* translit_nep has put the engine's output in the place of a run that has
\* an uppercase letter and holds a LEXICON key without being one
C28_Witness ==
  /\ pc = "nep"
  /\ nep_pos > 0
  /\ AsciiLetter(CurText[nep_pos])
  /\ ~HasKey(LEXICON, ToLower(LastRun))
  /\ HoldsLexiconKey(LastRun)
  /\ LastRun # ToLower(LastRun)
  /\ nep_out = translit_syllables(LastRun).text
  /\ nep_out # <<>>

\* C29: convert_kantipur_to_unicode replaces the keys in order of
\* decreasing length, no key being replaced before a longer one, and a text
\* that is a key of two or more letters comes out as the glyph mapped to
\* that key.
C29_LongestKeyFirst ==
  /\ [][KantipurReplace
        => \A h \in order_idx'..Len(ReplacementOrder) :
             Len(ReplacementOrder[h][1]) <= Len(ReplacementOrder[order_idx][1])]_vars
  /\ []((/\ pc = "returned"
         /\ Len(kantipur_text) > 1
         /\ HasKey(kantipur_to_unicode_map, kantipur_text))
        => result = Lookup(kantipur_to_unicode_map, kantipur_text))

\* C30: the string sanitize_filename returns has at most max_length
\* characters.
C30_LengthLimit ==
  pc = "returned" => Len(filename) <= max_length

====
